---- MODULE Spec2Model ----
(***************************************************************************)
(* Job queue and worker dispatch engine of src/services/jobQueue.ts.       *)
(*                                                                         *)
(* Two execution backends share one persistent `jobs` table:               *)
(*   - Distributed Mode: a broker queue (BullMQ) and a worker whose        *)
(*     'completed' / 'failed' events are mirrored into the jobs table;     *)
(*   - Standalone Mode: the in-process list inMemoryJobs, scanned by a     *)
(*     setInterval timer (processInMemoryJobs).                            *)
(*                                                                         *)
(* JavaScript runs handlers to their next `await`; every action below is   *)
(* one such synchronous segment (or a handler whose awaits are database    *)
(* writes of a single row).  Times are milliseconds relative to the         *)
(* current Date.now(): a nextRunAt of 0 is "now or earlier", and Tick lets *)
(* 5000 ms pass by lowering every future time.  The bookkeeping timestamps *)
(* createdAt / updatedAt / lastRunAt are not modelled: the code never      *)
(* reads them (creation order is the order of the ids).                    *)
(***************************************************************************)
EXTENDS Integers, Sequences, FiniteSets, TLC

\* ---------------------------------------------------------------- bounds
MaxJobs == 2
MaxScans == 2
MaxApiCalls == 1
MaxInFlight == 1

\* ------------------------------------------------------ program constants
MaxAttemptsDefault == 3
BaseDelayMs == 5000
PollIntervalMs == 5000
DefaultPriority == 1
RetryPriority == 10
WorkerConcurrency == 1

NoError == "none"
NoJob == [id |-> 0]

\* Tasks known to the taskLogs table and what running them does:
\*   t1     a generic task: processJob always succeeds
\*   tBoom  a scheduled workflow whose executeWorkflowById always throws "boom"
TaskIds == {"t1", "tBoom"}
\* the taskId of a payload built by enqueueJob(undefined): params.taskId is
\* missing and processJob throws 'Job data missing taskId in params'
NoTaskId == "undefinedTaskId"
Priorities == {DefaultPriority}
JobIds == 1..MaxJobs

VARIABLES
  initState,      \* "uninit" | "ready" | "threw": progress of initializeJobQueue
  initEnv,        \* history: the environment initializeJobQueue ran in
  inMemoryMode,   \* module flag inMemoryMode
  redisClient,    \* redisClient !== null
  jobQueue,       \* jobQueue !== null
  scheduler,      \* scheduler !== null
  workerRunning,  \* a BullMQ Worker was created by setupWorker
  timerRunning,   \* setInterval(processInMemoryJobs, 5000) was armed
  shutdownPhase,  \* position of shutdown(): "idle" | the await it is at | "returned"
  executorCall,   \* one processJob call followed step by step: payload, task, fault, result
  nextId,         \* number of ids handed out by uuidv4 so far
  inMemoryJobs,   \* the module array inMemoryJobs
  dbJobs,         \* the persistent jobs table, keyed by id
  rowOrder,       \* ids of the jobs rows in the order of their createdAt
  inserting,      \* enqueueJob calls suspended before db.insert(jobs)
  broker,         \* broker messages keyed by jobId
  scans,          \* running invocations of processInMemoryJobs, oldest first
  taskLogs,       \* status / error columns of the taskLogs table
  execCount,      \* history: number of processJob invocations per job id
  lastCall,       \* history: the retryJob or store-writer call that returned
                  \* in the last step, if one did, and what it returned
  apiCalls        \* number of direct updateJobStatus/updateJobForRetry calls

vars == <<initState, initEnv, inMemoryMode, redisClient, jobQueue,
          scheduler, workerRunning, timerRunning, shutdownPhase,
          executorCall, nextId,
          inMemoryJobs,
          dbJobs, rowOrder, inserting, broker, scans, taskLogs, execCount,
          lastCall, apiCalls>>

modeVars == <<initState, initEnv, inMemoryMode, redisClient, jobQueue,
              scheduler, workerRunning, timerRunning, shutdownPhase,
              executorCall>>

\* ------------------------------------------------------------- helpers
Pow2(n) == IF n = 0 THEN 1 ELSE IF n = 1 THEN 2 ELSE IF n = 2 THEN 4
           ELSE IF n = 3 THEN 8 ELSE IF n = 4 THEN 16 ELSE 32

\* index of the first entry of a list with the given id, 0 when absent
\* (Array.prototype.find)
FindIndex(list, jobId) ==
  IF \E i \in 1..Len(list) : list[i].id = jobId
  THEN CHOOSE i \in 1..Len(list) :
         list[i].id = jobId /\ \A k \in 1..(i-1) : list[k].id # jobId
  ELSE 0

\* ascending sequence of the members of a finite set of integers
RECURSIVE SortedSeq(_)
SortedSeq(S) ==
  IF S = {} THEN <<>>
  ELSE LET m == CHOOSE x \in S : \A y \in S : x <= y
       IN <<m>> \o SortedSeq(S \ {m})

\* ---------------------------------------------------------- job records
\* enqueueJob: the record pushed to inMemoryJobs and the row inserted in jobs
NewJob(jobId, taskId, t) ==
  [id |-> jobId, taskId |-> taskId, status |-> "pending", attempts |-> 0,
   maxAttempts |-> MaxAttemptsDefault, lastError |-> NoError, nextRunAt |-> t]

\* Math.pow(2, attempts) * 5000
BackoffDelay(attempts) == Pow2(attempts) * BaseDelayMs

\* processInMemoryJobs: the filter that selects the jobs of one scan
IsDue(job, t) == job.status = "pending" /\ job.nextRunAt <= t

\* processInMemoryJobs: the try branch before the await
MarkRunning(job) == [job EXCEPT !.status = "running"]

\* a dispatcher that forgets to record the success
OnSuccessNotRecorded(job) == job

\* processInMemoryJobs: the try branch after processJob resolved
OnSuccess(job) == [job EXCEPT !.status = "completed"]

\* a catch branch that computes the backoff from the attempts made before
OnFailureOldCount(job, errorMessage, t) ==
  LET n == job.attempts + 1
  IN IF n >= job.maxAttempts
     THEN [job EXCEPT !.attempts = n, !.lastError = errorMessage,
                      !.status = "failed"]
     ELSE [job EXCEPT !.attempts = n, !.lastError = errorMessage,
                      !.status = "pending",
                      !.nextRunAt = t + BackoffDelay(job.attempts)]

\* a catch branch that gives up at once on a payload without taskId
OnFailureNoTaskIdTerminal(job, errorMessage, t) ==
  LET n == job.attempts + 1
  IN IF n >= job.maxAttempts \/ errorMessage = "missingTaskId"
     THEN [job EXCEPT !.attempts = n, !.lastError = errorMessage,
                      !.status = "failed"]
     ELSE [job EXCEPT !.attempts = n, !.lastError = errorMessage,
                      !.status = "pending",
                      !.nextRunAt = t + BackoffDelay(n)]

\* processInMemoryJobs: the catch branch
OnFailure(job, errorMessage, t) ==
  LET n == job.attempts + 1
  IN IF n >= job.maxAttempts
     THEN [job EXCEPT !.attempts = n, !.lastError = errorMessage,
                      !.status = "failed"]
     ELSE [job EXCEPT !.attempts = n, !.lastError = errorMessage,
                      !.status = "pending",
                      !.nextRunAt = t + BackoffDelay(n)]

\* ------------------------------------------------------- Job Store access
\* getJobById: the in-memory entry in in-memory mode, the jobs row otherwise
GetJobById(memFlag, mem, db, jobId) ==
  IF memFlag
  THEN IF FindIndex(mem, jobId) = 0 THEN NoJob ELSE mem[FindIndex(mem, jobId)]
  ELSE IF jobId \in DOMAIN db THEN db[jobId] ELSE NoJob

\* an absent `status` argument of listJobs (undefined)
NoStatus == "undefined"

\* result.filter((job) => job.status === status) / .where(eq(jobs.status, status))
RECURSIVE FilterStatus(_, _)
FilterStatus(list, status) ==
  IF list = <<>> THEN <<>>
  ELSE IF Head(list).status = status
       THEN <<Head(list)>> \o FilterStatus(Tail(list), status)
       ELSE FilterStatus(Tail(list), status)

\* result.slice(0, limit) / .limit(limit), for limit >= 0
TakeFirst(list, limit) ==
  IF limit < Len(list) THEN SubSeq(list, 1, limit) ELSE list

\* a listJobs that cuts the list before it filters
ListJobsLimitThenFilter(memFlag, mem, db, order, status, limit) ==
  LET all == IF memFlag THEN mem ELSE [i \in 1..Len(order) |-> db[order[i]]]
  IN IF status # NoStatus THEN FilterStatus(TakeFirst(all, limit), status)
     ELSE TakeFirst(all, limit)

\* listJobs(status, limit): the in-memory list in push order, or the jobs
\* rows ordered by createdAt; filtered when a status is given; cut to limit
ListJobs(memFlag, mem, db, order, status, limit) ==
  LET all == IF memFlag THEN mem ELSE [i \in 1..Len(order) |-> db[order[i]]]
  IN IF status # NoStatus THEN TakeFirst(FilterStatus(all, status), limit)
     ELSE TakeFirst(all, limit)

\* the row / entry written by updateJobStatus (`if (error)` in memory; an
\* undefined lastError is not written by the ORM either)
StatusWrite(job, status, error) ==
  IF error = NoError THEN [job EXCEPT !.status = status]
  ELSE [job EXCEPT !.status = status, !.lastError = error]

\* the row / entry written by updateJobForRetry
\* a retry write that leaves a completed or failed job as it is
RetryWriteUnlessTerminal(job, error, nextRunAt) ==
  IF job.status \in {"completed", "failed"} THEN job
  ELSE [job EXCEPT !.status = "pending", !.attempts = job.attempts + 1,
                   !.lastError = error, !.nextRunAt = nextRunAt]

RetryWrite(job, error, nextRunAt) ==
  [job EXCEPT !.status = "pending", !.attempts = job.attempts + 1,
              !.lastError = error, !.nextRunAt = nextRunAt]

\* the row written by retryJob
ResetWrite(job, t) ==
  [job EXCEPT !.status = "pending", !.attempts = 0, !.nextRunAt = t]

\* an updateJobStatus whose write has no `where` on the id
UpdateJobStatusEveryRecord(memFlag, mem, db, jobId, status, error) ==
  IF memFlag
  THEN [mem |-> [i \in 1..Len(mem) |-> StatusWrite(mem[i], status, error)],
        db |-> db]
  ELSE [mem |-> mem,
        db |-> [k \in DOMAIN db |-> StatusWrite(db[k], status, error)]]

\* updateJobStatus: a single-row write to the store the mode selects; a
\* missing id writes nothing.  Result: the pair of stores.
UpdateJobStatus(memFlag, mem, db, jobId, status, error) ==
  IF memFlag
  THEN LET i == FindIndex(mem, jobId)
       IN [mem |-> IF i = 0 THEN mem
                   ELSE [mem EXCEPT ![i] = StatusWrite(mem[i], status, error)],
           db |-> db]
  ELSE [mem |-> mem,
        db |-> IF jobId \in DOMAIN db
               THEN [db EXCEPT ![jobId] = StatusWrite(db[jobId], status, error)]
               ELSE db]

\* updateJobForRetry: the same for the retry write
UpdateJobForRetry(memFlag, mem, db, jobId, error, nextRunAt) ==
  IF memFlag
  THEN LET i == FindIndex(mem, jobId)
       IN [mem |-> IF i = 0 THEN mem
                   ELSE [mem EXCEPT ![i] = RetryWrite(mem[i], error, nextRunAt)],
           db |-> db]
  ELSE [mem |-> mem,
        db |-> IF jobId \in DOMAIN db
               THEN [db EXCEPT ![jobId] = RetryWrite(db[jobId], error, nextRunAt)]
               ELSE db]

\* ---------------------------------------------------------- Task Executor
\* what processJob can do for a payload with this taskId: "ok" (returns
\* true) or the message of the exception it re-throws
ProcessJobOutcomes(taskId) ==
  IF taskId = "t1" THEN {"ok"}
  ELSE IF taskId = NoTaskId THEN {"missingTaskId"}
  ELSE {"boom"}

\* processJob up to its first suspension: the task is marked processing; a
\* payload without taskId throws before any write
ProcessJobBegin(logs, taskId) ==
  IF taskId = NoTaskId THEN logs
  ELSE [logs EXCEPT ![taskId] = [status |-> "processing", error |-> @.error]]

\* processJob from the task lookup to its return or re-throw; the catch
\* writes the task only `if (taskId)`
ProcessJobEnd(logs, taskId, outcome) ==
  IF taskId = NoTaskId THEN logs
  ELSE IF outcome = "ok"
  THEN [logs EXCEPT ![taskId] = [status |-> "completed", error |-> @.error]]
  ELSE [logs EXCEPT ![taskId] = [status |-> "failed", error |-> outcome]]


\* ------------------------------------------- Task Executor, step by step
\* what the taskLogs row of the payload's taskId is: missing, a task of
\* another type, or a scheduledWorkflow task without taskData, with taskData
\* that has no workflowId, or with a workflowId
TaskKinds == {"absent", "generic", "workflowNoData", "workflowNoId", "workflow"}

\* the awaited operation of the try block that rejects, if any: the update
\* to 'processing', the select of the task, the import of schedulerService,
\* executeWorkflowById, or the update to 'completed'
Faults == {"none", "markProcessing", "select", "import", "executeWorkflow",
           "markCompleted"}

NoExecutorCall ==
  [pc |-> "idle", hasTaskId |-> TRUE, kind |-> "generic", fault |-> "none",
   status |-> "pending", error |-> NoError, raised |-> NoError,
   thrown |-> NoError, workflowRan |-> FALSE]

\* processJob: the try block.  raised: the message of the exception that
\* left it (NoError when it reached `return true`); status: the status of
\* the task row after it; workflowRan: executeWorkflowById was awaited
ProcessJobTry(c) ==
  LET marked == IF c.kind = "absent" THEN c.status ELSE "processing"
  IN IF ~c.hasTaskId
     THEN [raised |-> "missingTaskId", status |-> c.status, workflowRan |-> FALSE]
     ELSE IF c.fault = "markProcessing"
     THEN [raised |-> "rejected", status |-> c.status, workflowRan |-> FALSE]
     ELSE IF c.fault = "select"
     THEN [raised |-> "rejected", status |-> marked, workflowRan |-> FALSE]
     ELSE IF c.kind = "absent"
     THEN [raised |-> "taskNotFound", status |-> marked, workflowRan |-> FALSE]
     ELSE IF c.kind = "workflow"
     THEN IF c.fault \in {"import", "executeWorkflow"}
          THEN [raised |-> "rejected", status |-> marked, workflowRan |-> FALSE]
          ELSE IF c.fault = "markCompleted"
          THEN [raised |-> "rejected", status |-> marked, workflowRan |-> TRUE]
          ELSE [raised |-> NoError, status |-> "completed", workflowRan |-> TRUE]
     ELSE IF c.kind = "workflowNoId"
     THEN [raised |-> NoError, status |-> marked, workflowRan |-> FALSE]
     ELSE IF c.fault = "markCompleted"
     THEN [raised |-> "rejected", status |-> marked, workflowRan |-> FALSE]
     ELSE [raised |-> NoError, status |-> "completed", workflowRan |-> FALSE]

\* a catch block that logs the error and returns
ProcessJobCatchSwallows(c, r) ==
  IF r.raised = NoError
  THEN [c EXCEPT !.pc = "returned", !.status = r.status,
                 !.raised = NoError, !.workflowRan = r.workflowRan]
  ELSE [c EXCEPT !.pc = "returned",
                 !.status = IF c.hasTaskId /\ c.kind # "absent" THEN "failed"
                            ELSE r.status,
                 !.error = IF c.hasTaskId /\ c.kind # "absent" THEN r.raised
                           ELSE c.error,
                 !.raised = r.raised, !.workflowRan = r.workflowRan]

\* processJob: the call after the try block r: `return true`, or the catch
\* block, which marks the task failed with the message when the payload has
\* a taskId (a missing row is not written) and throws the error again
ProcessJobCatch(c, r) ==
  IF r.raised = NoError
  THEN [c EXCEPT !.pc = "returned", !.status = r.status,
                 !.raised = NoError, !.workflowRan = r.workflowRan]
  ELSE [c EXCEPT !.pc = "threw",
                 !.status = IF c.hasTaskId /\ c.kind # "absent" THEN "failed"
                            ELSE r.status,
                 !.error = IF c.hasTaskId /\ c.kind # "absent" THEN r.raised
                           ELSE c.error,
                 !.raised = r.raised, !.thrown = r.raised,
                 !.workflowRan = r.workflowRan]

\* ------------------------------------------------------------ the broker
\* queue.add(name, payload, {jobId, priority, attempts, backoff}); a job id
\* that is still waiting or active is not added a second time
BrokerAdd(b, jobId, taskId, priority, backoff, isRetry) ==
  LET msg == [taskId |-> taskId, priority |-> priority,
              attempts |-> MaxAttemptsDefault, backoff |-> backoff,
              attemptsMade |-> 0, state |-> "waiting", notBefore |-> 0,
              retry |-> isRetry]
  IN IF jobId \in DOMAIN b
     THEN IF b[jobId].state \in {"waiting", "active"} THEN b
          ELSE [b EXCEPT ![jobId] = msg]
     ELSE [k \in DOMAIN b \cup {jobId} |-> IF k = jobId THEN msg ELSE b[k]]

\* messages the worker may take now
Deliverable(b) ==
  {k \in DOMAIN b : b[k].state = "waiting" /\ b[k].notBefore = 0}

\* the broker serves the lowest priority number first
ServedNext(b) ==
  {k \in Deliverable(b) :
     \A o \in Deliverable(b) : b[k].priority <= b[o].priority}

\* a processor that swallows the exception: the broker acknowledges
BrokerFailAcks(msg) == [msg EXCEPT !.state = "completed"]

\* the broker's bookkeeping of a failed attempt: re-deliver after the
\* exponential backoff of the message while attempts are left
BrokerFail(msg) ==
  LET made == msg.attemptsMade + 1
  IN IF made < msg.attempts
     THEN [msg EXCEPT !.attemptsMade = made, !.state = "waiting",
                      !.notBefore = msg.backoff * Pow2(made - 1)]
     ELSE [msg EXCEPT !.attemptsMade = made, !.state = "failed"]

\* setupWorker: the handler of the worker's 'failed' event
FailedHandler(memFlag, mem, db, jobId, errorMessage) ==
  LET jobData == GetJobById(memFlag, mem, db, jobId)
  IN IF jobData = NoJob THEN [mem |-> mem, db |-> db]
     ELSE IF jobData.attempts >= jobData.maxAttempts
     THEN UpdateJobStatus(memFlag, mem, db, jobId, "failed", errorMessage)
     ELSE UpdateJobForRetry(memFlag, mem, db, jobId, errorMessage,
                            BackoffDelay(jobData.attempts))

\* setupWorker: the handler of the worker's 'completed' event
CompletedHandler(memFlag, mem, db, jobId) ==
  UpdateJobStatus(memFlag, mem, db, jobId, "completed", NoError)

\* -------------------------------------------------------- initialization
ConnectOutcomes == {"ok", "pingFails", "queueFails"}
SchedulerOutcomes == {"ok", "unavailable", "throws"}
WorkerOutcomes == {"ok", "throws"}

\* initializeJobQueue: the try block.  threw: an exception left the block;
\* client / queue / sched: what was assigned before it did.
InitTry(force, conn, sched) ==
  IF force
  THEN [threw |-> TRUE, client |-> FALSE, queue |-> FALSE, sched |-> FALSE]
  ELSE IF conn \in {"pingFails", "queueFails"}
  THEN [threw |-> TRUE, client |-> TRUE, queue |-> FALSE, sched |-> FALSE]
  ELSE [threw |-> FALSE, client |-> TRUE, queue |-> TRUE,
        sched |-> (sched = "ok")]

\* a catch block that sets the flag and re-throws
InitCatchRethrow(r) == [memFlag |-> r.threw, escaped |-> r.threw]

\* initializeJobQueue: the catch block sets the flag and swallows the error
InitCatch(r) == [memFlag |-> r.threw, escaped |-> FALSE]

\* an 'error' handler that falls back to the in-memory list
RedisErrorHandlerFallsBack(memFlag) == TRUE

\* redisClient.on('error'): the handler logs (when not in in-memory mode) and
\* leaves the mode flag as it is
RedisErrorHandler(memFlag) == memFlag

\* a setupWorker that arms the polling timer in every mode
SetupWorkerAlwaysPolls(memFlag, client, workerOutcome) ==
  [worker |-> (~memFlag /\ client /\ workerOutcome = "ok"), timer |-> TRUE]

\* setupWorker: which dispatcher is started
SetupWorker(memFlag, client, workerOutcome) ==
  IF ~memFlag /\ client
  THEN [worker |-> (workerOutcome = "ok"), timer |-> FALSE]
  ELSE [worker |-> FALSE, timer |-> TRUE]

NoCall == [op |-> "none", id |-> 0, result |-> "none"]

Init ==
  /\ initState = "uninit"
  /\ initEnv = [force |-> FALSE, connFailed |-> FALSE]
  /\ inMemoryMode = FALSE
  /\ redisClient = FALSE
  /\ jobQueue = FALSE
  /\ scheduler = FALSE
  /\ workerRunning = FALSE
  /\ timerRunning = FALSE
  /\ shutdownPhase = "idle"
  /\ executorCall = NoExecutorCall
  /\ nextId = 0
  /\ inMemoryJobs = <<>>
  /\ dbJobs = <<>>
  /\ rowOrder = <<>>
  /\ inserting = {}
  /\ broker = <<>>
  /\ scans = <<>>
  /\ taskLogs = [t \in TaskIds |-> [status |-> "pending", error |-> NoError]]
  /\ execCount = [j \in JobIds |-> 0]
  /\ lastCall = NoCall
  /\ apiCalls = 0

jobVars == <<nextId, inMemoryJobs, dbJobs, rowOrder, inserting, broker,
             scans, taskLogs, execCount, apiCalls>>

\* initializeJobQueue(), under an environment chosen by the caller's
\* configuration (FORCE_IN_MEMORY_QUEUE) and by what Redis / bullmq do
InitializeJobQueue(force, conn, sched, workerOutcome) ==
  /\ initState = "uninit"
  /\ LET r == InitTry(force, conn, sched)
         c == InitCatch(r)
         w == SetupWorker(c.memFlag, r.client, workerOutcome)
     IN /\ initEnv' = [force |-> force, connFailed |-> (~force /\ conn # "ok")]
        /\ redisClient' = r.client
        /\ jobQueue' = r.queue
        /\ scheduler' = r.sched
        /\ IF c.escaped
           THEN /\ initState' = "threw"
                /\ UNCHANGED <<inMemoryMode, workerRunning, timerRunning>>
           ELSE /\ initState' = "ready"
                /\ inMemoryMode' = c.memFlag
                /\ workerRunning' = w.worker
                /\ timerRunning' = w.timer
  /\ lastCall' = NoCall
  /\ UNCHANGED <<shutdownPhase, executorCall>>
  /\ UNCHANGED jobVars

\* the Redis connection emits 'error' at some time after the client was made
RedisError ==
  /\ redisClient
  /\ inMemoryMode' = RedisErrorHandler(inMemoryMode)
  /\ lastCall' = NoCall
  /\ UNCHANGED <<initState, initEnv, redisClient, jobQueue, scheduler,
                 workerRunning, timerRunning, shutdownPhase, executorCall>>
  /\ UNCHANGED jobVars

\* ----------------------------------------------------- Job Lifecycle API
\* shutdown(): where the call is after its next step.  In in-memory mode the
\* body is skipped and the call returns; otherwise it awaits, one after the
\* other, scheduler.close(), jobQueue.close() and redisClient.quit()
ShutdownAdvance(phase, memFlag) ==
  IF phase = "idle"
  THEN IF memFlag THEN "returned" ELSE "closingScheduler"
  ELSE IF phase = "closingScheduler" THEN "closingQueue"
  ELSE IF phase = "closingQueue" THEN "quitting"
  ELSE "returned"

\* one step of a shutdown() call, from its call or from the await it is at
\* to the next await or to its return.  The worker made by setupWorker is
\* never closed; it shares the connection that quit() ends, and whether it
\* goes on taking messages after that is up to the broker library
Shutdown(workerSurvives) ==
  /\ shutdownPhase # "returned"
  /\ shutdownPhase' = ShutdownAdvance(shutdownPhase, inMemoryMode)
  /\ workerRunning' = IF shutdownPhase = "quitting"
                      THEN workerRunning /\ workerSurvives
                      ELSE workerRunning
  /\ lastCall' = NoCall
  /\ UNCHANGED <<initState, initEnv, inMemoryMode, redisClient, jobQueue,
                 scheduler, timerRunning, executorCall>>
  /\ UNCHANGED jobVars

\* enqueueJob up to `await db.insert(jobs)`: the job goes to the broker when
\* a queue exists, otherwise to the in-memory list
EnqueueJob(taskId, priority) ==
  /\ nextId < MaxJobs
  /\ Cardinality(inserting) < MaxInFlight
  /\ LET jobId == nextId + 1
     IN /\ nextId' = jobId
        /\ IF ~inMemoryMode /\ jobQueue
           THEN /\ broker' = BrokerAdd(broker, jobId, taskId, priority,
                                       BaseDelayMs, FALSE)
                /\ UNCHANGED inMemoryJobs
           ELSE /\ inMemoryJobs' = Append(inMemoryJobs, NewJob(jobId, taskId, 0))
                /\ UNCHANGED broker
        /\ inserting' = inserting \cup {[id |-> jobId, taskId |-> taskId]}
  /\ lastCall' = NoCall
  /\ UNCHANGED <<modeVars, rowOrder, dbJobs, scans, taskLogs, execCount, apiCalls>>

\* jobs.createdAt is not set by the insert: the table stamps the row with
\* the time of the insert, so the new row is the last in createdAt order
CreatedAtOrder(order, jobId) == Append(order, jobId)

\* an insert that deduplicates by taskId: no row for a task that has one
InsertRowOncePerTask(db, jobId, taskId) ==
  IF \E k \in DOMAIN db : db[k].taskId = taskId THEN db
  ELSE [k \in DOMAIN db \cup {jobId} |->
          IF k = jobId THEN NewJob(jobId, taskId, 0) ELSE db[k]]

\* db.insert(jobs).values({...}): the table with the new row
InsertRow(db, jobId, taskId) ==
  [k \in DOMAIN db \cup {jobId} |->
     IF k = jobId THEN NewJob(jobId, taskId, 0) ELSE db[k]]

\* enqueueJob from the insert of the jobs row to `return jobId`
EnqueueInsert(e) ==
  /\ e \in inserting
  /\ inserting' = inserting \ {e}
  /\ dbJobs' = InsertRow(dbJobs, e.id, e.taskId)
  /\ rowOrder' = CreatedAtOrder(rowOrder, e.id)
  /\ lastCall' = NoCall
  /\ UNCHANGED <<modeVars, nextId, inMemoryJobs, broker, scans,
                 taskLogs, execCount, apiCalls>>

\* enqueueJob when `await db.insert(jobs)` rejects: nothing catches, the
\* call throws and what it did before the insert stays as it is
EnqueueInsertFails(e) ==
  /\ e \in inserting
  /\ inserting' = inserting \ {e}
  /\ lastCall' = [op |-> "enqueueJob", id |-> e.id, result |-> "threw"]
  /\ UNCHANGED <<modeVars, rowOrder, nextId, inMemoryJobs, dbJobs, broker,
                 scans, taskLogs, execCount, apiCalls>>

\* enqueueJob from its call to `return jobId`, when nothing else runs while
\* it awaits the insert
EnqueueJobWhole(taskId, priority) ==
  /\ nextId < MaxJobs
  /\ inserting = {}
  /\ LET jobId == nextId + 1
     IN /\ nextId' = jobId
        /\ IF ~inMemoryMode /\ jobQueue
           THEN /\ broker' = BrokerAdd(broker, jobId, taskId, priority,
                                       BaseDelayMs, FALSE)
                /\ UNCHANGED inMemoryJobs
           ELSE /\ inMemoryJobs' = Append(inMemoryJobs, NewJob(jobId, taskId, 0))
                /\ UNCHANGED broker
        /\ dbJobs' = InsertRow(dbJobs, jobId, taskId)
        /\ rowOrder' = CreatedAtOrder(rowOrder, jobId)
  /\ lastCall' = NoCall
  /\ UNCHANGED <<modeVars, inserting, scans, taskLogs, execCount, apiCalls>>

\* a retryJob without the check of the current status
RetryJobEffectNoCheck(memFlag, queue, mem, db, b, jobId, addOutcome) ==
  LET jobData == GetJobById(memFlag, mem, db, jobId)
      reset == IF jobId \in DOMAIN db
               THEN [db EXCEPT ![jobId] = ResetWrite(db[jobId], 0)] ELSE db
  IN IF jobData = NoJob THEN [result |-> FALSE, db |-> db, broker |-> b]
     ELSE IF ~memFlag /\ queue
     THEN [result |-> TRUE, db |-> reset,
           broker |-> BrokerAdd(b, jobId, jobData.taskId, RetryPriority,
                                0, TRUE)]
     ELSE [result |-> TRUE, db |-> reset, broker |-> b]

\* retryJob: its return value and the stores it leaves behind.  addOutcome
\* is what jobQueue.add does when it is reached.
RetryJobEffect(memFlag, queue, mem, db, b, jobId, addOutcome) ==
  LET jobData == GetJobById(memFlag, mem, db, jobId)
      reset == IF jobId \in DOMAIN db
               THEN [db EXCEPT ![jobId] = ResetWrite(db[jobId], 0)] ELSE db
  IN IF jobData = NoJob THEN [result |-> FALSE, db |-> db, broker |-> b]
     ELSE IF jobData.status # "failed"
     THEN [result |-> FALSE, db |-> db, broker |-> b]
     ELSE IF ~memFlag /\ queue
     THEN IF addOutcome = "throws"
          THEN [result |-> FALSE, db |-> reset, broker |-> b]
          ELSE [result |-> TRUE, db |-> reset,
                broker |-> BrokerAdd(b, jobId, jobData.taskId, RetryPriority,
                                     0, TRUE)]
     ELSE [result |-> TRUE, db |-> reset, broker |-> b]

RetryJob(jobId, addOutcome) ==
  /\ LET r == RetryJobEffect(inMemoryMode, jobQueue, inMemoryJobs, dbJobs,
                             broker, jobId, addOutcome)
     IN /\ dbJobs' = r.db
        /\ broker' = r.broker
        /\ lastCall' = [op |-> "retryJob", id |-> jobId, result |-> r.result]
  /\ UNCHANGED <<modeVars, rowOrder, nextId, inMemoryJobs, inserting, scans,
                 taskLogs, execCount, apiCalls>>

\* a direct call of the exported updateJobStatus
ApiUpdateJobStatus(jobId, status, error) ==
  /\ apiCalls < MaxApiCalls
  /\ apiCalls' = apiCalls + 1
  /\ LET r == UpdateJobStatus(inMemoryMode, inMemoryJobs, dbJobs, jobId,
                              status, error)
     IN inMemoryJobs' = r.mem /\ dbJobs' = r.db
  /\ lastCall' = [op |-> "updateJobStatus", id |-> jobId, result |-> "void"]
  /\ UNCHANGED <<modeVars, rowOrder, nextId, inserting, broker, scans,
                 taskLogs, execCount>>

\* a direct call of the exported updateJobForRetry
ApiUpdateJobForRetry(jobId, error, nextRunAt) ==
  /\ apiCalls < MaxApiCalls
  /\ apiCalls' = apiCalls + 1
  /\ LET r == UpdateJobForRetry(inMemoryMode, inMemoryJobs, dbJobs, jobId,
                                error, nextRunAt)
     IN inMemoryJobs' = r.mem /\ dbJobs' = r.db
  /\ lastCall' = [op |-> "updateJobForRetry", id |-> jobId, result |-> "void",
                  error |-> error, nextRunAt |-> nextRunAt]
  /\ UNCHANGED <<modeVars, rowOrder, nextId, inserting, broker, scans,
                 taskLogs, execCount>>

\* ------------------------------------------------ Task Executor calls
\* a dispatcher calls processJob(jobId, data): the payload, the task row
\* and the operation that will reject are the environment's choice
CallProcessJob(hasTaskId, kind, fault, status) ==
  /\ executorCall.pc = "idle"
  /\ executorCall' = [NoExecutorCall EXCEPT
                        !.pc = "called", !.hasTaskId = hasTaskId,
                        !.kind = kind, !.fault = fault, !.status = status,
                        !.error = IF status = "failed" THEN "earlier"
                                  ELSE NoError]
  /\ UNCHANGED <<initState, initEnv, inMemoryMode, redisClient, jobQueue,
                 scheduler, workerRunning, timerRunning, shutdownPhase,
                 lastCall>>
  /\ UNCHANGED jobVars

\* the call runs to its return or to the exception that leaves it
ProcessJobSettles ==
  /\ executorCall.pc = "called"
  /\ executorCall' = ProcessJobCatch(executorCall, ProcessJobTry(executorCall))
  /\ UNCHANGED <<initState, initEnv, inMemoryMode, redisClient, jobQueue,
                 scheduler, workerRunning, timerRunning, shutdownPhase,
                 lastCall>>
  /\ UNCHANGED jobVars

\* the dispatcher has handled the result; the next call can be followed
ProcessJobDone ==
  /\ executorCall.pc \in {"returned", "threw"}
  /\ executorCall' = NoExecutorCall
  /\ UNCHANGED <<initState, initEnv, inMemoryMode, redisClient, jobQueue,
                 scheduler, workerRunning, timerRunning, shutdownPhase,
                 lastCall>>
  /\ UNCHANGED jobVars

\* -------------------------------------------------- Standalone Dispatcher
\* processInMemoryJobs: the snapshot `pendingJobs`, as list positions
PendingJobs(mem) ==
  SortedSeq({i \in 1..Len(mem) : IsDue(mem[i], 0)})

\* the list of running invocations without its s-th member
RemoveAt(list, s) == SubSeq(list, 1, s - 1) \o SubSeq(list, s + 1, Len(list))

\* processInMemoryJobs from its start to the first `await processJob` (or
\* to its end when nothing is due), on the list mem
StartScan(mem) ==
  LET due == PendingJobs(mem)
  IN IF due = <<>>
     THEN /\ inMemoryJobs' = mem
          /\ UNCHANGED <<scans, taskLogs, execCount>>
     ELSE LET i == Head(due)
              job == mem[i]
          IN /\ inMemoryJobs' = [mem EXCEPT ![i] = MarkRunning(job)]
             /\ scans' = Append(scans, [cur |-> i, rest |-> Tail(due)])
             /\ taskLogs' = ProcessJobBegin(taskLogs, job.taskId)
             /\ execCount' = [execCount EXCEPT ![job.id] = @ + 1]

\* a scan that records a failure and then ends, leaving the rest of its snapshot
ScanStepAbortsOnThrow(s, outcome) ==
  /\ s <= Len(scans)
  /\ LET i == scans[s].cur
         job == inMemoryJobs[i]
         done == IF outcome = "ok" THEN OnSuccess(job)
                 ELSE OnFailure(job, outcome, 0)
         mem1 == [inMemoryJobs EXCEPT ![i] = done]
         logs1 == ProcessJobEnd(taskLogs, job.taskId, outcome)
         rest == IF outcome = "ok" THEN scans[s].rest ELSE <<>>
     IN /\ outcome \in ProcessJobOutcomes(job.taskId)
        /\ IF rest = <<>>
           THEN /\ inMemoryJobs' = mem1
                /\ taskLogs' = logs1
                /\ scans' = RemoveAt(scans, s)
                /\ UNCHANGED execCount
           ELSE LET n == Head(rest)
                IN /\ inMemoryJobs' = [mem1 EXCEPT ![n] = MarkRunning(mem1[n])]
                   /\ taskLogs' = ProcessJobBegin(logs1, mem1[n].taskId)
                   /\ scans' = [scans EXCEPT ![s] =
                                  [cur |-> n, rest |-> Tail(rest)]]
                   /\ execCount' = [execCount EXCEPT ![mem1[n].id] = @ + 1]
  /\ lastCall' = NoCall
  /\ UNCHANGED <<modeVars, rowOrder, nextId, dbJobs, inserting, broker,
                 apiCalls>>

\* processInMemoryJobs resumes: processJob resolved ("ok") or threw; the
\* outcome is recorded and the loop goes on to the next job of the snapshot
ScanStep(s, outcome) ==
  /\ s <= Len(scans)
  /\ LET i == scans[s].cur
         job == inMemoryJobs[i]
         done == IF outcome = "ok" THEN OnSuccess(job)
                 ELSE OnFailure(job, outcome, 0)
         mem1 == [inMemoryJobs EXCEPT ![i] = done]
         logs1 == ProcessJobEnd(taskLogs, job.taskId, outcome)
         rest == scans[s].rest
     IN /\ outcome \in ProcessJobOutcomes(job.taskId)
        /\ IF rest = <<>>
           THEN /\ inMemoryJobs' = mem1
                /\ taskLogs' = logs1
                /\ scans' = RemoveAt(scans, s)
                /\ UNCHANGED execCount
           ELSE LET n == Head(rest)
                IN /\ inMemoryJobs' = [mem1 EXCEPT ![n] = MarkRunning(mem1[n])]
                   /\ taskLogs' = ProcessJobBegin(logs1, mem1[n].taskId)
                   /\ scans' = [scans EXCEPT ![s] =
                                  [cur |-> n, rest |-> Tail(rest)]]
                   /\ execCount' = [execCount EXCEPT ![mem1[n].id] = @ + 1]
  /\ lastCall' = NoCall
  /\ UNCHANGED <<modeVars, rowOrder, nextId, dbJobs, inserting, broker,
                 apiCalls>>

\* ------------------------------------------------- Distributed Dispatcher
\* the worker takes a message and calls the processor, which calls processJob
Deliver(jobId) ==
  /\ workerRunning
  /\ jobId \in ServedNext(broker)
  /\ Cardinality({k \in DOMAIN broker : broker[k].state = "active"})
       < WorkerConcurrency
  /\ broker' = [broker EXCEPT ![jobId].state = "active"]
  /\ taskLogs' = ProcessJobBegin(taskLogs, broker[jobId].taskId)
  /\ execCount' = [execCount EXCEPT ![jobId] = @ + 1]
  /\ lastCall' = NoCall
  /\ UNCHANGED <<modeVars, rowOrder, nextId, inMemoryJobs, dbJobs, inserting,
                 scans, apiCalls>>

\* the processor returned or threw: the broker acks or nacks the message and
\* the worker emits 'completed' or 'failed'
WorkerFinish(jobId, outcome) ==
  /\ jobId \in DOMAIN broker
  /\ broker[jobId].state = "active"
  /\ outcome \in ProcessJobOutcomes(broker[jobId].taskId)
  /\ taskLogs' = ProcessJobEnd(taskLogs, broker[jobId].taskId, outcome)
  /\ IF outcome = "ok"
     THEN /\ broker' = [broker EXCEPT ![jobId].state = "completed"]
          /\ LET r == CompletedHandler(inMemoryMode, inMemoryJobs, dbJobs, jobId)
             IN inMemoryJobs' = r.mem /\ dbJobs' = r.db
     ELSE /\ broker' = [broker EXCEPT ![jobId] = BrokerFail(broker[jobId])]
          /\ LET r == FailedHandler(inMemoryMode, inMemoryJobs, dbJobs, jobId,
                                    outcome)
             IN inMemoryJobs' = r.mem /\ dbJobs' = r.db
  /\ lastCall' = NoCall
  /\ UNCHANGED <<modeVars, rowOrder, nextId, inserting, scans, execCount, apiCalls>>

\* ------------------------------------------------------------------ time
Elapse(t) == IF t >= PollIntervalMs THEN t - PollIntervalMs ELSE 0

\* 5000 ms pass: every future time comes closer, and the interval timer,
\* when armed, calls processInMemoryJobs (a new invocation, whether or not
\* an earlier one has returned)
Tick ==
  /\ dbJobs' = [k \in DOMAIN dbJobs |->
        [dbJobs[k] EXCEPT !.nextRunAt = Elapse(@)]]
  /\ broker' = [k \in DOMAIN broker |->
        [broker[k] EXCEPT !.notBefore = Elapse(@)]]
  /\ LET mem == [i \in 1..Len(inMemoryJobs) |->
                  [inMemoryJobs[i] EXCEPT !.nextRunAt = Elapse(@)]]
     IN IF timerRunning /\ Len(scans) < MaxScans
        THEN StartScan(mem)
        ELSE /\ inMemoryJobs' = mem
             /\ UNCHANGED <<scans, taskLogs, execCount>>
  /\ lastCall' = NoCall
  /\ UNCHANGED <<modeVars, rowOrder, nextId, inserting, apiCalls>>

\* ---------------------------------------------------------- specifications
ApiStatuses == {"pending", "processing", "completed", "failed"}

Next ==
  \/ \E force \in BOOLEAN, conn \in ConnectOutcomes, sched \in SchedulerOutcomes,
        w \in WorkerOutcomes : InitializeJobQueue(force, conn, sched, w)
  \/ \E t \in TaskIds, p \in Priorities : EnqueueJob(t, p)
  \/ \E e \in inserting : EnqueueInsert(e)
  \/ \E s \in 1..MaxScans, o \in {"ok", "boom"} : ScanStep(s, o)
  \/ \E j \in JobIds : Deliver(j)
  \/ \E j \in JobIds, o \in {"ok", "boom"} : WorkerFinish(j, o)
  \/ Tick
  \/ RedisError

RetryNext ==
  \/ Next
  \/ \E j \in JobIds, a \in {"ok", "throws"} : RetryJob(j, a)

\* the service and a caller of shutdown(), who calls nothing else once
\* shutdown() has been called; the dispatchers and a suspended enqueueJob
\* go on
ShutdownNext ==
  \/ shutdownPhase = "idle" /\ Next
  \/ /\ shutdownPhase # "idle"
     /\ \/ \E e \in inserting : EnqueueInsert(e)
        \/ \E s \in 1..MaxScans, o \in {"ok", "boom"} : ScanStep(s, o)
        \/ \E j \in JobIds : Deliver(j)
        \/ \E j \in JobIds, o \in {"ok", "boom"} : WorkerFinish(j, o)
        \/ Tick
  \/ \E workerSurvives \in BOOLEAN : Shutdown(workerSurvives)

ApiNext ==
  \/ RetryNext
  \/ \E j \in JobIds, st \in ApiStatuses, e \in {NoError, "manual"} :
        ApiUpdateJobStatus(j, st, e)
  \/ \E j \in JobIds, nxt \in {0, BaseDelayMs} :
        ApiUpdateJobForRetry(j, "manual", nxt)

\* the service on its own: initialization, enqueueJob and the two dispatchers
Spec == Init /\ [][Next]_vars

\* calls of the Task Executor with every payload, task and single fault
ExecutorNext ==
  \/ \E hasTaskId \in BOOLEAN, kind \in TaskKinds, fault \in Faults,
        status \in {"pending", "failed"} :
        CallProcessJob(hasTaskId, kind, fault, status)
  \/ ProcessJobSettles
  \/ ProcessJobDone

SpecExecutor == Init /\ [][ExecutorNext]_vars

\* the service until and after a call of shutdown()
SpecShutdown == Init /\ [][ShutdownNext]_vars

\* the same with an operator who calls retryJob
SpecRetry == Init /\ [][RetryNext]_vars

\* the same with direct calls of the exported store writers
SpecApi == Init /\ [][ApiNext]_vars

\* the fairness the runtime provides: armed timers fire and time passes
\* (Tick), awaited promises settle (the oldest running scan resumes, and so
\* every scan in its turn; WorkerFinish; EnqueueInsert), the startup call is
\* made, and a running worker takes available messages
Fairness ==
  /\ WF_vars(Tick)
  /\ WF_vars(\E o \in {"ok", "boom"} : ScanStep(1, o))
  /\ WF_vars(\E j \in JobIds, o \in {"ok", "boom"} : WorkerFinish(j, o))
  /\ WF_vars(\E j \in JobIds : Deliver(j))
  /\ WF_vars(\E e \in inserting : EnqueueInsert(e))
  /\ WF_vars(\E force \in BOOLEAN, conn \in ConnectOutcomes,
                sched \in SchedulerOutcomes, w \in WorkerOutcomes :
                InitializeJobQueue(force, conn, sched, w))

LiveSpec == SpecRetry /\ Fairness

\* Standalone Mode by configuration or by fallback: the startup in an
\* environment where FORCE_IN_MEMORY_QUEUE is set or Redis cannot be used,
\* enqueueJob (the polling dispatcher never reads the jobs table, so each
\* call is taken as a whole) and the polling dispatcher, under the runtime's
\* fairness: the timer fires, and the oldest running scan resumes
StandaloneNext ==
  \/ \E force \in BOOLEAN, conn \in {"pingFails", "queueFails"} :
        InitializeJobQueue(force, conn, "ok", "ok")
  \/ \E t \in TaskIds, p \in Priorities : EnqueueJobWhole(t, p)
  \/ \E s \in 1..MaxScans, o \in {"ok", "boom"} : ScanStep(s, o)
  \/ Tick

StandaloneLive ==
  /\ Init /\ [][StandaloneNext]_vars
  /\ WF_vars(Tick)
  /\ WF_vars(\E o \in {"ok", "boom"} : ScanStep(1, o))

\* the service with a jobs table whose insert can fail
InsertFaultNext ==
  \/ Next
  \/ \E e \in inserting : EnqueueInsertFails(e)

SpecInsertFault == Init /\ [][InsertFaultNext]_vars

\* the service when every caller of enqueueJob passes no taskId
NoTaskIdNext ==
  \/ \E force \in BOOLEAN, conn \in ConnectOutcomes, sched \in SchedulerOutcomes,
        w \in WorkerOutcomes : InitializeJobQueue(force, conn, sched, w)
  \/ \E p \in Priorities : EnqueueJob(NoTaskId, p)
  \/ \E e \in inserting : EnqueueInsert(e)
  \/ \E s \in 1..MaxScans : ScanStep(s, "missingTaskId")
  \/ \E j \in JobIds : Deliver(j)
  \/ \E j \in JobIds : WorkerFinish(j, "missingTaskId")
  \/ Tick
  \/ RedisError

SpecNoTaskId == Init /\ [][NoTaskIdNext]_vars

\* ------------------------------------------------------------- vocabulary
Standalone == initState = "ready" /\ inMemoryMode
Distributed == initState = "ready" /\ ~inMemoryMode
MemIds == {inMemoryJobs[i].id : i \in 1..Len(inMemoryJobs)}
MemJob(jobId) == inMemoryJobs[FindIndex(inMemoryJobs, jobId)]

\* processJob is running for the job: a scan awaits it, or the worker's
\* processor holds its message
Executing(jobId) ==
  \/ \E s \in 1..Len(scans) : inMemoryJobs[scans[s].cur].id = jobId
  \/ jobId \in DOMAIN broker /\ broker[jobId].state = "active"

\* ------------------------------------------------------------------ C1
\* C1: in every reachable state of either mode every job record (in-memory
\* entry and jobs row) has 0 <= attempts <= maxAttempts.
C1_AttemptsWithinMax ==
  /\ \A i \in 1..Len(inMemoryJobs) :
       /\ 0 <= inMemoryJobs[i].attempts
       /\ inMemoryJobs[i].attempts <= inMemoryJobs[i].maxAttempts
  /\ \A k \in DOMAIN dbJobs :
       0 <= dbJobs[k].attempts /\ dbJobs[k].attempts <= dbJobs[k].maxAttempts

\* ------------------------------------------------------------------ C2
\* C2: in Standalone Mode a job whose Task Executor always throws is executed
\* exactly maxAttempts times: it is never handed to processJob a fourth time,
\* and once it is failed it has attempts = 3, lastError = the message thrown
\* and three executions behind it.
C2_ThrowingJobRunsMaxAttemptsTimes ==
  Standalone =>
    \A i \in 1..Len(inMemoryJobs) :
      LET job == inMemoryJobs[i]
      IN ProcessJobOutcomes(job.taskId) = {"boom"} =>
           /\ execCount[job.id] <= MaxAttemptsDefault
           /\ job.status = "failed" =>
                /\ job.attempts = MaxAttemptsDefault
                /\ job.lastError = "boom"
                /\ execCount[job.id] = MaxAttemptsDefault

\* ------------------------------------------------------------------ C3
\* C3: in Distributed Mode, once the broker has used up the attempts of a
\* message whose deliveries all threw, the jobs row that recorded those
\* failures has status failed and lastError set; it is pending only while
\* the broker has attempts left.
C3_ExhaustedJobIsFailed ==
  Distributed =>
    \A k \in DOMAIN broker :
      (/\ broker[k].state = "failed"
       /\ k \in DOMAIN dbJobs
       /\ dbJobs[k].lastError # NoError)
      => dbJobs[k].status = "failed"


\* ------------------------------------------------------------------ C4
\* C4: in Standalone Mode, with the timer firing and executions returning,
\* an in-memory job of a task that always succeeds eventually is completed
\* with attempts = 0.
C4_SucceedingJobCompletes ==
  \A j \in JobIds :
    (Standalone /\ j \in MemIds /\ ProcessJobOutcomes(MemJob(j).taskId) = {"ok"})
    ~> (/\ j \in MemIds
        /\ MemJob(j).status = "completed" /\ MemJob(j).attempts = 0)

\* a job of an always-succeeding task was executed by a scan and is completed
C4_Witness ==
  /\ Standalone
  /\ \E j \in MemIds :
       /\ ProcessJobOutcomes(MemJob(j).taskId) = {"ok"}
       /\ MemJob(j).status = "completed" /\ MemJob(j).attempts = 0
       /\ execCount[j] >= 1

\* ------------------------------------------------------------------ C5
\* C5: in Standalone Mode, whenever no execution of a job is in progress and
\* enqueueJob has inserted its row, the jobs row and the in-memory entry of
\* the job agree on status and attempts.
C5_StoreMirrorsMemory ==
  Standalone =>
    \A j \in MemIds :
      (j \in DOMAIN dbJobs /\ scans = <<>>)
      => /\ dbJobs[j].status = MemJob(j).status
         /\ dbJobs[j].attempts = MemJob(j).attempts

\* ------------------------------------------------------------------ C6
\* C6: a retryJob call on an unknown id, or on a job whose current status (as
\* getJobById reports it) is not failed, returns false and leaves the
\* in-memory list, the jobs table and the broker unchanged; a call returns
\* true only for a job whose current status is failed.
C6_RetryOnlyFailed ==
  [][lastCall'.op = "retryJob" =>
       LET pre == GetJobById(inMemoryMode, inMemoryJobs, dbJobs, lastCall'.id)
           isFailed == pre # NoJob /\ pre.status = "failed"
       IN /\ ~isFailed => /\ lastCall'.result = FALSE
                          /\ UNCHANGED <<inMemoryJobs, dbJobs, broker>>
          /\ lastCall'.result = TRUE => isFailed]_vars

\* retryJob has just been refused for an existing job that is completed
C6_Witness ==
  /\ lastCall.op = "retryJob" /\ lastCall.result = FALSE
  /\ GetJobById(inMemoryMode, inMemoryJobs, dbJobs, lastCall.id) # NoJob
  /\ GetJobById(inMemoryMode, inMemoryJobs, dbJobs, lastCall.id).status
       = "completed"

\* ------------------------------------------------------------------ C7
\* C7: in both modes, right after retryJob(jobId) has returned true,
\* getJobById(jobId) reports status pending, attempts 0 and a nextRunAt that
\* is not in the future (so a repeated retryJob would be refused).
C7_RetryResetsJob ==
  (lastCall.op = "retryJob" /\ lastCall.result = TRUE) =>
    LET job == GetJobById(inMemoryMode, inMemoryJobs, dbJobs, lastCall.id)
    IN /\ job # NoJob
       /\ job.status = "pending" /\ job.attempts = 0 /\ job.nextRunAt = 0

\* ------------------------------------------------------------------ C8
\* C8: after retryJob has returned true for a job, the job is handed to the
\* Task Executor again (by a later scan or a later delivery).
C8_RetriedJobRunsAgain ==
  \A j \in JobIds :
    (lastCall = [op |-> "retryJob", id |-> j, result |-> TRUE])
    ~> Executing(j)

\* ------------------------------------------------------------------ C9
\* C9: in Distributed Mode the message retryJob submits is in the highest
\* priority band: whenever it and a message of enqueueJob with the default
\* priority can both be delivered, the broker (lowest number first) serves
\* the retried one no later.
C9_RetryServedFirst ==
  Distributed =>
    \A r \in Deliverable(broker), d \in Deliverable(broker) :
      (broker[r].retry /\ ~broker[d].retry
         /\ broker[d].priority = DefaultPriority)
      => r \in ServedNext(broker)

\* ------------------------------------------------------------------ C10
\* C10: initializeJobQueue never throws; with the force flag it creates no
\* Redis client and selects Standalone Mode, and when the ping or the queue
\* construction raises, the exception is caught and the mode is Standalone.
C10_InitNeverThrows ==
  /\ initState # "threw"
  /\ initState = "ready" =>
       /\ initEnv.force => (inMemoryMode /\ ~redisClient /\ ~jobQueue)
       /\ initEnv.connFailed => (inMemoryMode /\ ~jobQueue)

\* initialization returned after a failed connection and fell back
C10_Witness ==
  initState = "ready" /\ initEnv.connFailed /\ inMemoryMode /\ timerRunning

\* ------------------------------------------------------------------ C11
\* C11: once initializeJobQueue has returned, no step (a dispatcher step, an
\* enqueueJob, a connection error, the passing of time) changes the mode
\* flag or undoes the initialization.
C11_ModeFixedAfterInit ==
  [][initState = "ready" =>
       (initState' = "ready" /\ inMemoryMode' = inMemoryMode)]_vars

\* the worker has run a job to the end of the broker's attempts and the mode
\* is still Distributed
C11_Witness ==
  /\ Distributed /\ redisClient
  /\ \E k \in DOMAIN broker : broker[k].state = "failed"
\* ------------------------------------------------------------------ C12
\* C12: after initialization the polling timer is armed only in Standalone
\* Mode, the broker worker exists only in Distributed Mode, and the two are
\* never both active.
C12_OneDispatcherPerMode ==
  initState = "ready" =>
    /\ timerRunning => inMemoryMode
    /\ workerRunning => ~inMemoryMode
    /\ ~(timerRunning /\ workerRunning)

\* Standalone Mode after a fallback (a Redis client exists), with the timer
\* armed, no worker, and a job executed by a scan
C12_Witness ==
  /\ Standalone /\ redisClient /\ timerRunning /\ ~workerRunning
  /\ \E j \in JobIds : execCount[j] >= 1
\* ------------------------------------------------------------------ C13
\* C13: in every reachable state the status of every job record (in-memory
\* entry and jobs row) is one of pending, processing, completed, failed.
C13_StatusInVocabulary ==
  /\ \A i \in 1..Len(inMemoryJobs) :
       inMemoryJobs[i].status \in {"pending", "processing", "completed", "failed"}
  /\ \A k \in DOMAIN dbJobs :
       dbJobs[k].status \in {"pending", "processing", "completed", "failed"}
\* ------------------------------------------------------------------ C14
\* C14: terminal statuses are stable. In every step, a job record whose
\* status is completed keeps it, and a record whose status is failed keeps it
\* unless the step is a retryJob of that job returning true, which leaves it
\* pending with attempts 0; no dispatcher step changes either status.
C14_TerminalStable ==
  [][/\ \A i \in 1..Len(inMemoryJobs) :
          LET old == inMemoryJobs[i]
              new == inMemoryJobs'[i]
          IN /\ old.status = "completed" => new.status = "completed"
             /\ old.status = "failed" =>
                  \/ new.status = "failed"
                  \/ /\ lastCall' = [op |-> "retryJob", id |-> old.id,
                                      result |-> TRUE]
                     /\ new.status = "pending" /\ new.attempts = 0
     /\ \A k \in DOMAIN dbJobs :
          LET old == dbJobs[k]
              new == dbJobs'[k]
          IN /\ old.status = "completed" => new.status = "completed"
             /\ old.status = "failed" =>
                  \/ new.status = "failed"
                  \/ /\ lastCall' = [op |-> "retryJob", id |-> k,
                                      result |-> TRUE]
                     /\ new.status = "pending" /\ new.attempts = 0]_vars
\* ------------------------------------------------------------------ C15
\* C15: every enqueueJob call takes an id that no in-memory entry, jobs row
\* or broker message carries yet, and creates exactly one job record for it
\* with status pending, attempts 0 and maxAttempts 3, whether or not another
\* job has the same taskId; creating it changes no existing job record.
C15_EnqueueCreatesFreshPending ==
  [][/\ nextId' # nextId =>
          LET jobId == nextId'
          IN /\ jobId \notin MemIds \cup DOMAIN dbJobs \cup DOMAIN broker
             /\ \A e \in inserting : e.id # jobId
             /\ inserting' \ inserting \in {{[id |-> jobId, taskId |-> t]} :
                                              t \in TaskIds}
             /\ dbJobs' = dbJobs
             /\ \/ inMemoryJobs' = inMemoryJobs
                \/ /\ Len(inMemoryJobs') = Len(inMemoryJobs) + 1
                   /\ SubSeq(inMemoryJobs', 1, Len(inMemoryJobs)) = inMemoryJobs
                   /\ LET new == inMemoryJobs'[Len(inMemoryJobs')]
                      IN /\ new.id = jobId /\ new.status = "pending"
                         /\ new.attempts = 0 /\ new.maxAttempts = 3
     /\ \A e \in inserting \ inserting' :
          /\ e.id \notin DOMAIN dbJobs
          /\ DOMAIN dbJobs' = DOMAIN dbJobs \cup {e.id}
          /\ dbJobs'[e.id].id = e.id /\ dbJobs'[e.id].taskId = e.taskId
          /\ dbJobs'[e.id].status = "pending"
          /\ dbJobs'[e.id].attempts = 0 /\ dbJobs'[e.id].maxAttempts = 3
          /\ \A k \in DOMAIN dbJobs : dbJobs'[k] = dbJobs[k]
          /\ inMemoryJobs' = inMemoryJobs]_vars

\* two jobs were enqueued for the same task, and one of them has completed
\* while the other is still pending
C15_Witness ==
  \E a, b \in DOMAIN dbJobs :
    /\ a # b /\ dbJobs[a].taskId = dbJobs[b].taskId
    /\ dbJobs[a].status = "completed" /\ dbJobs[b].status = "pending"
    /\ dbJobs[b].attempts = 0
\* ------------------------------------------------------------------ C16
\* C16: in every reachable state, for every status s and every limit n >= 0,
\* the k-th job returned by listJobs(s, n) is the k-th job in creation order
\* among those whose status is s (among all jobs when no status is given),
\* and the result has n jobs, or all the matching jobs when they are fewer.
C16_ListJobsFirstNInOrder ==
  LET created == IF inMemoryMode THEN inMemoryJobs
                 ELSE [i \in 1..Len(rowOrder) |-> dbJobs[rowOrder[i]]]
  IN \A s \in {NoStatus, "pending", "running", "processing", "completed",
                "failed"} :
       LET match == {i \in 1..Len(created) :
                       s = NoStatus \/ created[i].status = s}
       IN \A n \in 0..(MaxJobs + 1) :
            LET r == ListJobs(inMemoryMode, inMemoryJobs, dbJobs, rowOrder,
                              s, n)
            IN /\ Len(r) = IF n < Cardinality(match) THEN n
                           ELSE Cardinality(match)
               /\ \A k \in 1..Len(r) :
                    \E i \in match :
                      /\ r[k] = created[i]
                      /\ Cardinality({m \in match : m < i}) = k - 1

\* Distributed Mode with two rows, the older one completed: listJobs for
\* status pending with limit 1 returns the younger row alone
C16_Witness ==
  /\ Distributed /\ Len(rowOrder) = 2
  /\ dbJobs[rowOrder[1]].status = "completed"
  /\ ListJobs(inMemoryMode, inMemoryJobs, dbJobs, rowOrder, "pending", 1)
       = <<dbJobs[rowOrder[2]]>>
\* ------------------------------------------------------------------ C17
\* C17: a call updateJobForRetry(jobId, error, nextRunAt) for a job that
\* getJobById finds leaves that job with status pending, attempts one more
\* than before, lastError = error and nextRunAt = the value given, whatever
\* its status was before the call.
C17_RetryUpdateWrites ==
  [][lastCall'.op = "updateJobForRetry" =>
       LET pre == GetJobById(inMemoryMode, inMemoryJobs, dbJobs, lastCall'.id)
           post == GetJobById(inMemoryMode', inMemoryJobs', dbJobs',
                              lastCall'.id)
       IN pre # NoJob =>
            /\ post.status = "pending"
            /\ post.attempts = pre.attempts + 1
            /\ post.lastError = lastCall'.error
            /\ post.nextRunAt = lastCall'.nextRunAt]_vars

\* updateJobForRetry has just been called for a job the worker had completed
C17_Witness ==
  /\ Distributed /\ lastCall.op = "updateJobForRetry"
  /\ lastCall.id \in DOMAIN dbJobs /\ lastCall.id \in DOMAIN broker
  /\ broker[lastCall.id].state = "completed"
  /\ dbJobs[lastCall.id].status = "pending"
  /\ dbJobs[lastCall.id].attempts = 1
  /\ dbJobs[lastCall.id].lastError = "manual"
\* ------------------------------------------------------------------ C18
\* C18: in Distributed Mode shutdown() stops the worker before it closes
\* anything, and closes scheduler, queue and connection one after the
\* other: from the step in which shutdown() starts to close the scheduler,
\* and for ever after it has returned, no message is handed to the Task
\* Executor, and the call moves only from one close to the next.
C18_ShutdownStopsWorkerFirst ==
  [][(Distributed /\ shutdownPhase' # "idle") =>
       /\ \A k \in DOMAIN broker' :
            broker'[k].state = "active" =>
              (k \in DOMAIN broker /\ broker[k].state = "active")
       /\ execCount' = execCount
       /\ <<shutdownPhase, shutdownPhase'>> \in
            {<<"idle", "closingScheduler">>,
             <<"closingScheduler", "closingScheduler">>,
             <<"closingScheduler", "closingQueue">>,
             <<"closingQueue", "closingQueue">>,
             <<"closingQueue", "quitting">>,
             <<"quitting", "quitting">>,
             <<"quitting", "returned">>,
             <<"returned", "returned">>}]_vars

\* ------------------------------------------------------------------ C19
\* C19: in Standalone Mode, once shutdown() has returned, no scan starts and
\* no job is handed to the Task Executor (an execution already under way
\* goes on to its end).
C19_ShutdownCancelsTimer ==
  [][(Standalone /\ shutdownPhase = "returned") =>
       /\ Len(scans') <= Len(scans)
       /\ execCount' = execCount]_vars
\* ------------------------------------------------------------------ C20
\* C20: in Standalone Mode at most one scan, and so at most one call of the
\* Task Executor, is in progress in any reachable state: the timer starts no
\* scan while an earlier one has not returned.
C20_OneScanAtATime ==
  Standalone =>
    /\ Len(scans) <= 1
    /\ Cardinality({j \in JobIds : Executing(j)}) <= 1
\* ------------------------------------------------------------------ C21
\* C21: in Standalone Mode a job is executed at most once per pending
\* period.  A job becomes pending when it is enqueued and each time a failed
\* attempt schedules a retry, so the executions started for it so far are
\* never more than the pending periods it has had: attempts + 1, or attempts
\* when its last failure left it failed.
C21_OneExecutionPerPendingPeriod ==
  Standalone =>
    \A i \in 1..Len(inMemoryJobs) :
      LET job == inMemoryJobs[i]
      IN execCount[job.id] <= IF job.status = "failed" THEN job.attempts
                              ELSE job.attempts + 1

\* ------------------------------------------------------------------ C22
\* C22: in Standalone Mode every step that hands a job to the Task Executor
\* finds the job pending and due: its status before the step is pending and
\* its nextRunAt at the moment of the invocation is not in the future.
C22_ExecutedOnlyWhenPendingAndDue ==
  [][Standalone =>
       \A i \in 1..Len(inMemoryJobs) :
         execCount'[inMemoryJobs[i].id] # execCount[inMemoryJobs[i].id] =>
           /\ inMemoryJobs[i].status = "pending"
           /\ inMemoryJobs'[i].nextRunAt = 0]_vars
\* ------------------------------------------------------------------ C23
\* C23: in Standalone Mode, every step in which a failed execution raises a
\* job's attempts to a value N below maxAttempts leaves the job pending with
\* nextRunAt = now + 2^N * 5000 ms: 10000 ms after the first failure and
\* 20000 ms after the second.
C23_BackoffDoubles ==
  [][Standalone =>
       \A i \in 1..Len(inMemoryJobs) :
         LET old == inMemoryJobs[i]
             new == inMemoryJobs'[i]
         IN (new.attempts = old.attempts + 1
               /\ new.attempts < new.maxAttempts) =>
              /\ new.status = "pending"
              /\ new.nextRunAt = IF new.attempts = 1 THEN 10000 ELSE 20000]_vars

\* a job has failed twice and waits 20000 ms for its third attempt
C23_Witness ==
  /\ Standalone
  /\ \E i \in 1..Len(inMemoryJobs) :
       /\ inMemoryJobs[i].attempts = 2 /\ inMemoryJobs[i].status = "pending"
       /\ inMemoryJobs[i].nextRunAt = 20000
       /\ inMemoryJobs[i].lastError = "boom"
\* ------------------------------------------------------------------ C24
\* C24: the two dispatchers record the same thing for the same outcome.  In
\* every Distributed step in which an execution of a job ends, the jobs row
\* gets the status and attempts the Standalone Dispatcher gives a record in
\* the same state for the same outcome, and after a failure that leaves the
\* job pending the row's nextRunAt and the broker's re-delivery delay are
\* the Standalone backoff delay.
C24_DispatchersAgree ==
  [][Distributed =>
       \A k \in DOMAIN broker \cap DOMAIN dbJobs :
         /\ broker'[k].attemptsMade = broker[k].attemptsMade + 1 =>
              LET ref == OnFailure(dbJobs[k], dbJobs'[k].lastError, 0)
              IN /\ dbJobs'[k].status = ref.status
                 /\ dbJobs'[k].attempts = ref.attempts
                 /\ ref.status = "pending" =>
                      /\ dbJobs'[k].nextRunAt = ref.nextRunAt
                      /\ broker'[k].notBefore = ref.nextRunAt
         /\ (broker[k].state = "active" /\ broker'[k].state = "completed") =>
              /\ dbJobs'[k].status = OnSuccess(dbJobs[k]).status
              /\ dbJobs'[k].attempts = OnSuccess(dbJobs[k]).attempts]_vars

\* ------------------------------------------------------------------ C25
\* C25: in Distributed Mode, once the broker holds a job as completed and the
\* enqueueJob call that created it has returned, the job's row in the jobs
\* table has status completed.
C25_SucceededJobRowCompleted ==
  Distributed =>
    \A k \in DOMAIN broker :
      (/\ broker[k].state = "completed"
       /\ \A e \in inserting : e.id # k)
      => (k \in DOMAIN dbJobs /\ dbJobs[k].status = "completed")
\* ------------------------------------------------------------------ C26
\* C26: a successful execution takes a job from pending through an
\* in-progress status to completed, once, and leaves attempts alone.  In
\* every step, a record that becomes in progress was pending, a record that
\* becomes completed was in progress (for a jobs row: pending, with its
\* message held by the worker) and keeps its attempts, and a message the
\* broker acknowledges as completed leaves its existing row completed.
C26_SuccessPath ==
  [][/\ \A i \in 1..Len(inMemoryJobs) :
          LET old == inMemoryJobs[i]
              new == inMemoryJobs'[i]
          IN /\ (new.status = "running" /\ old.status # "running") =>
                  old.status = "pending"
             /\ (new.status = "completed" /\ old.status # "completed") =>
                  (old.status = "running" /\ new.attempts = old.attempts)
     /\ \A k \in DOMAIN dbJobs :
          LET old == dbJobs[k]
              new == dbJobs'[k]
          IN /\ (new.status = "completed" /\ old.status # "completed") =>
                  /\ old.status = "pending" /\ new.attempts = old.attempts
                  /\ k \in DOMAIN broker /\ broker[k].state = "active"
             /\ (/\ Distributed /\ k \in DOMAIN broker
                 /\ broker[k].state = "active"
                 /\ broker'[k].state = "completed") =>
                  new.status = "completed"]_vars
\* ------------------------------------------------------------------ C27
\* C27: in Distributed Mode the executor's result decides the broker's
\* answer.  A message becomes completed, and a jobs row becomes completed,
\* only in a step that ends an execution of that job which the Task
\* Executor finished successfully (the task is marked completed); a
\* delivery is counted as a failed attempt exactly when the execution that
\* ends threw (the task is marked failed).
C27_AckFollowsExecutor ==
  [][Distributed =>
       /\ \A k \in DOMAIN broker' :
            (/\ broker'[k].state = "completed"
             /\ (k \notin DOMAIN broker \/ broker[k].state # "completed")) =>
              /\ k \in DOMAIN broker /\ broker[k].state = "active"
              /\ execCount[k] >= 1
              /\ taskLogs'[broker[k].taskId].status = "completed"
       /\ \A k \in DOMAIN dbJobs :
            (dbJobs'[k].status = "completed"
               /\ dbJobs[k].status # "completed") =>
              /\ k \in DOMAIN broker /\ broker[k].state = "active"
              /\ taskLogs'[broker[k].taskId].status = "completed"
       /\ \A k \in DOMAIN broker :
            (broker[k].state = "active" /\ broker'[k].state # "active") =>
              /\ (broker'[k].attemptsMade = broker[k].attemptsMade + 1)
                   <=> (taskLogs'[broker[k].taskId].status = "failed")
              /\ (broker'[k].state = "completed")
                   <=> (taskLogs'[broker[k].taskId].status = "completed")
            ]_vars

\* the worker has acknowledged one job, whose row is completed, and has
\* counted a failed attempt for another, whose task is marked failed
C27_Witness ==
  /\ Distributed
  /\ \E k \in DOMAIN broker \cap DOMAIN dbJobs :
       /\ broker[k].state = "completed" /\ dbJobs[k].status = "completed"
       /\ execCount[k] = 1
  /\ \E k \in DOMAIN broker :
       /\ broker[k].attemptsMade >= 1
       /\ taskLogs[broker[k].taskId].status = "failed"
C29_ReturnMeansCompleted ==
  (executorCall.pc = "returned" /\ executorCall.kind # "absent")
  => /\ executorCall.status = "completed"
     /\ executorCall.kind = "workflow" => executorCall.workflowRan
\* ------------------------------------------------------------------ C30
\* C30: in Standalone Mode an exception of the Task Executor stays inside
\* the scan.  Every scan works through its snapshot in list order; a step
\* that records a failed execution on a job (attempts + 1) also records the
\* error and the status pending or failed on it, and the scan that executed
\* it goes on: it ends if its snapshot is used up, and otherwise it hands
\* the next job of the snapshot to the Task Executor.
C30_FailureStaysInScan ==
  [][Standalone =>
       /\ \A s \in 1..Len(scans) :
            /\ scans[s].rest # <<>> => scans[s].cur < Head(scans[s].rest)
            /\ \A a, b \in 1..Len(scans[s].rest) :
                 a < b => scans[s].rest[a] < scans[s].rest[b]
       /\ \A i \in 1..Len(inMemoryJobs) :
            inMemoryJobs'[i].attempts = inMemoryJobs[i].attempts + 1 =>
              /\ inMemoryJobs'[i].lastError # NoError
              /\ inMemoryJobs'[i].status \in {"pending", "failed"}
              /\ \E s \in 1..Len(scans) :
                   /\ scans[s].cur = i
                   /\ IF scans[s].rest = <<>>
                      THEN /\ scans' = RemoveAt(scans, s)
                           /\ execCount' = execCount
                      ELSE LET n == Head(scans[s].rest)
                           IN /\ scans' = [scans EXCEPT ![s] =
                                   [cur |-> n, rest |-> Tail(scans[s].rest)]]
                              /\ inMemoryJobs'[n].status = "running"
                              /\ execCount'[inMemoryJobs[n].id]
                                   = execCount[inMemoryJobs[n].id] + 1]_vars

\* the execution of the first job of a scan has just failed, and the same
\* scan is executing the second job of its snapshot
C30_Witness ==
  /\ Standalone /\ Len(inMemoryJobs) = 2 /\ Len(scans) = 1
  /\ inMemoryJobs[1].attempts = 1 /\ inMemoryJobs[1].lastError = "boom"
  /\ inMemoryJobs[1].status = "pending" /\ inMemoryJobs[1].nextRunAt = 10000
  /\ scans[1].cur = 2 /\ inMemoryJobs[2].status = "running"
  /\ execCount[inMemoryJobs[2].id] = 1
\* ------------------------------------------------------------------ C31
\* C31: a job whose payload has no taskId is handled like any other failing
\* job.  No execution of it is recorded as completed; in Standalone Mode each
\* end of an execution raises attempts by one and records the error, leaves
\* the job pending with the usual backoff (10000 ms, then 20000 ms) while
\* attempts is below maxAttempts, and makes it failed only when attempts
\* reaches maxAttempts; in Distributed Mode each execution is a failed
\* attempt of the broker, re-delivered after the broker's backoff while
\* attempts are left, and the jobs row is never failed before maxAttempts.
C31_NoTaskIdFailsLikeAnyJob ==
  [][/\ Standalone =>
         \A i \in 1..Len(inMemoryJobs) :
           LET old == inMemoryJobs[i]
               new == inMemoryJobs'[i]
           IN /\ new.status # "completed"
              /\ new.attempts \in {old.attempts, old.attempts + 1}
              /\ (old.status = "running" /\ new.status # "running") =>
                   new.attempts = old.attempts + 1
              /\ new.attempts = old.attempts + 1 =>
                   /\ new.lastError = "missingTaskId"
                   /\ IF new.attempts >= new.maxAttempts
                      THEN new.status = "failed"
                      ELSE /\ new.status = "pending"
                           /\ new.nextRunAt =
                                IF new.attempts = 1 THEN 10000 ELSE 20000
              /\ (new.status = "failed" /\ old.status # "failed") =>
                   /\ new.attempts = old.attempts + 1
                   /\ new.attempts >= new.maxAttempts
     /\ Distributed =>
         \A k \in DOMAIN broker :
           /\ broker'[k].state # "completed"
           /\ (broker[k].state = "active" /\ broker'[k].state # "active") =>
                /\ broker'[k].attemptsMade = broker[k].attemptsMade + 1
                /\ IF broker'[k].attemptsMade < broker[k].attempts
                   THEN /\ broker'[k].state = "waiting"
                        /\ broker'[k].notBefore =
                             IF broker'[k].attemptsMade = 1 THEN 5000 ELSE 10000
                   ELSE broker'[k].state = "failed"
                /\ k \in DOMAIN dbJobs =>
                     /\ dbJobs'[k].attempts = dbJobs[k].attempts + 1
                     /\ dbJobs'[k].lastError = "missingTaskId"
           /\ (k \in DOMAIN dbJobs /\ k \in DOMAIN dbJobs') =>
                /\ dbJobs'[k].status # "completed"
                /\ (dbJobs'[k].status = "failed" /\ dbJobs[k].status # "failed")
                     => dbJobs'[k].attempts >= dbJobs'[k].maxAttempts]_vars

\* a job without taskId has been executed three times by the polling
\* dispatcher and is failed with attempts = maxAttempts
C31_Witness ==
  /\ Standalone
  /\ \E i \in 1..Len(inMemoryJobs) :
       /\ inMemoryJobs[i].taskId = NoTaskId
       /\ inMemoryJobs[i].status = "failed"
       /\ inMemoryJobs[i].attempts = inMemoryJobs[i].maxAttempts
       /\ inMemoryJobs[i].lastError = "missingTaskId"
       /\ execCount[inMemoryJobs[i].id] = 3
\* ------------------------------------------------------------------ C32
\* C32: a call of updateJobStatus, updateJobForRetry or retryJob with a job
\* id changes at most the record with that id.  The status, attempts,
\* lastError and nextRunAt of every other jobs row and in-memory entry are
\* what they were, no record is added or removed, and when no record has
\* the id both stores are unchanged.
C32_WritersTouchOneRecord ==
  [][lastCall'.op \in {"updateJobStatus", "updateJobForRetry", "retryJob"} =>
       /\ DOMAIN dbJobs' = DOMAIN dbJobs
       /\ Len(inMemoryJobs') = Len(inMemoryJobs)
       /\ \A k \in DOMAIN dbJobs :
            k # lastCall'.id =>
              /\ dbJobs'[k].status = dbJobs[k].status
              /\ dbJobs'[k].attempts = dbJobs[k].attempts
              /\ dbJobs'[k].lastError = dbJobs[k].lastError
              /\ dbJobs'[k].nextRunAt = dbJobs[k].nextRunAt
       /\ \A i \in 1..Len(inMemoryJobs) :
            inMemoryJobs[i].id # lastCall'.id =>
              /\ inMemoryJobs'[i].status = inMemoryJobs[i].status
              /\ inMemoryJobs'[i].attempts = inMemoryJobs[i].attempts
              /\ inMemoryJobs'[i].lastError = inMemoryJobs[i].lastError
              /\ inMemoryJobs'[i].nextRunAt = inMemoryJobs[i].nextRunAt
       /\ (lastCall'.id \notin DOMAIN dbJobs /\ lastCall'.id \notin MemIds) =>
            /\ dbJobs' = dbJobs
            /\ inMemoryJobs' = inMemoryJobs]_vars

\* updateJobStatus(1, 'processing', 'manual') has just written the row of
\* job 1 while the row of job 2 exists and is as enqueueJob inserted it
C32_Witness ==
  /\ Distributed
  /\ lastCall.op = "updateJobStatus" /\ lastCall.id = 1
  /\ DOMAIN dbJobs = {1, 2}
  /\ dbJobs[1].status = "processing" /\ dbJobs[1].lastError = "manual"
  /\ dbJobs[2].status = "pending" /\ dbJobs[2].lastError = NoError
  /\ dbJobs[2].attempts = 0
\* ------------------------------------------------------------------ C33
\* C33: in Standalone Mode, with the timer firing and every execution
\* returning or throwing, every enqueued job eventually is completed or
\* failed with at most maxAttempts executions behind it.
C33_EveryJobEndsWithinMaxAttempts ==
  \A j \in JobIds :
    (Standalone /\ j \in MemIds)
    ~> (/\ j \in MemIds
        /\ MemJob(j).status \in {"completed", "failed"}
        /\ execCount[j] <= MemJob(j).maxAttempts)
\* ------------------------------------------------------------------ C34
\* C34: a retryJob call that returns false has modified nothing: the jobs
\* table, the in-memory list and the broker are what they were before the
\* call, whatever made it fail.
C34_FailedRetryChangesNothing ==
  [][(lastCall'.op = "retryJob" /\ lastCall'.result = FALSE) =>
       UNCHANGED <<dbJobs, inMemoryJobs, broker>>]_vars
\* ------------------------------------------------------------------ C35
\* C35: every job held by a backend (a broker message or an entry of the
\* in-memory list) whose enqueueJob call is over, by a return or by a throw
\* at the insert, has a jobs row with its id.
C35_BackendJobHasRecord ==
  \A j \in DOMAIN broker \cup MemIds :
    (\A e \in inserting : e.id # j) => j \in DOMAIN dbJobs
\* ------------------------------------------------------------------ C36
\* C36: once initializeJobQueue has returned, a dispatcher is running: the
\* broker worker or the polling timer, also when the worker could not be
\* created after the broker connection succeeded.
C36_DispatcherAfterInit ==
  initState = "ready" => (workerRunning \/ timerRunning)
\* ------------------------------------------------------------------ C37
\* C37: a job accepted by enqueueJob before initializeJobQueue has completed
\* is not lost: whichever mode is selected afterwards, eventually getJobById
\* returns it and its dispatcher has handed it to the Task Executor.
C37_EarlyJobNotLost ==
  \A j \in JobIds :
    (initState = "uninit" /\ j \in MemIds)
    ~> (/\ initState = "ready"
        /\ GetJobById(inMemoryMode, inMemoryJobs, dbJobs, j) # NoJob
        /\ execCount[j] >= 1)

====
